---- MODULE Spec2Model ----
(***************************************************************************)
(* Model of advanced-vector/vector.h: RawMemory<T> (a block of raw slots)  *)
(* and Vector<T> (the live elements in slots [0, size) of its block).      *)
(*                                                                         *)
(* Every public operation of Vector is one action.  The body of each       *)
(* operation is an operator over a context record c that is threaded       *)
(* through the statements of the C++ function in program order:            *)
(*   c.heap    block id -> sequence of slots (<<>> = block not allocated)  *)
(*   c.vec     the Vector objects (alive, buffer_, capacity_, size_)       *)
(*   c.fuel    number of fallible element operations that still succeed    *)
(*             before one throws (<<>> = none throws)                      *)
(*   c.exc     phase label of the exception in flight, or "none"           *)
(*   c.allocs, c.frees, c.dtors, c.leaked, c.baddtor   counters of what    *)
(*             the call did (blocks allocated / freed, element destructors *)
(*             run on live slots, live elements whose block was freed      *)
(*             without destroying them, destructors run on non-live slots) *)
(* Slot indices are 0-based as in the source; sequences are 1-based.       *)
(***************************************************************************)
EXTENDS Integers, Sequences, FiniteSets, TLC

\* ---------------------------------------------------------------- bounds
HeapSlots == 6    \* slots the heap holds in the one-vector program
MaxCap == 4       \* largest Vector(n) / Reserve(n) / Resize(n) argument there
PairSlots == 5    \* slots the heap holds in the two-vector program
PairCap == 2      \* largest Vector(n) / Reserve(n) / Resize(n) argument there
MaxVal == 1       \* user element values are 0..MaxVal

\* ------------------------------------------------------- element values
Uninit == -2      \* a raw slot holding no live object
MovedFrom == -1   \* the valid-but-unspecified value a moved-from T holds
Default == 0      \* the value of a value-initialised T()
NullBuf == 0      \* nullptr

Vecs == {"a", "b"}
Blocks == 1..(Cardinality(Vecs) + 1)
Values == Default..MaxVal
\* <<>>: no element operation throws in this call; <<n>>: the one after n
\* successful fallible element operations throws (n up to m).
FuelsTo(m) == {<<>>} \cup {<<n>> : n \in 0..m}

\* The element types T the template is instantiated with, by the two traits
\* the code tests.
ElemTypes == [nothrow_move : BOOLEAN, copyable : BOOLEAN]

\* T: the element type; heap, vec: the blocks and the Vector objects;
\* room: the number of slots the heap can hold (operator new throws
\* std::bad_alloc beyond it) and the largest count a caller passes;
\* halted: the program stopped.
VARIABLES T, room, heap, vec, halted
vars == <<T, room, heap, vec, halted>>

\* ------------------------------------------------------------ RawMemory
EmptyVec == [alive |-> TRUE, buffer |-> NullBuf, capacity |-> 0, size |-> 0]
DeadVec == [alive |-> FALSE, buffer |-> NullBuf, capacity |-> 0, size |-> 0]

Ctx(h, vv, fuel) ==
    [heap |-> h, vec |-> vv, fuel |-> fuel, exc |-> "none", room |-> room.slots,
     allocs |-> 0, frees |-> 0, dtors |-> 0, leaked |-> 0, baddtor |-> 0]

Thrown(c) == c.exc # "none"

\* operator new returns an address not in use: the lowest free block id.
FreshBlock(h) == CHOOSE b \in Blocks : h[b] = <<>> /\ \A d \in Blocks : h[d] = <<>> => b <= d

\* The buffer RawMemory(capacity) will hold: nullptr when capacity = 0.
NewBuffer(c, n) == IF n = 0 THEN NullBuf ELSE FreshBlock(c.heap)

\* The slots of all allocated blocks.
RECURSIVE Used(_, _)
Used(h, b) == IF b = 0 THEN 0 ELSE Len(h[b]) + Used(h, b - 1)

\* RawMemory(size_t capacity): Allocate(capacity); operator new throws
\* std::bad_alloc when the heap cannot hold the block.
RawMemoryCtor(c, n) ==
    IF n = 0 THEN c
    ELSE IF Used(c.heap, Cardinality(Blocks)) + n > c.room THEN [c EXCEPT !.exc = "alloc"]
    ELSE [c EXCEPT !.heap[FreshBlock(c.heap)] = [i \in 1..n |-> Uninit],
                   !.allocs = @ + 1]

LiveCount(blk) == Cardinality({i \in DOMAIN blk : blk[i] # Uninit})

\* ~RawMemory(): Deallocate(buffer_); never runs element destructors.
RawMemoryDtor(c, buf) ==
    IF buf = NullBuf THEN c
    ELSE [c EXCEPT !.heap[buf] = <<>>,
                   !.frees = @ + 1,
                   !.leaked = @ + LiveCount(c.heap[buf])]

Slot(c, buf, i) == c.heap[buf][i + 1]

\* ------------------------------------------------- element operations
\* One fallible element operation: throws when the fuel is used up.
Tick(c, phase, fallible) ==
    IF ~fallible \/ c.fuel = <<>> THEN c
    ELSE IF c.fuel[1] = 0 THEN [c EXCEPT !.exc = phase, !.fuel = <<>>]
    ELSE [c EXCEPT !.fuel = <<c.fuel[1] - 1>>]

MoveCtorThrows == ~T.nothrow_move

\* The heap after dbuf[di] takes over the value of sbuf[si].
MoveSlot(h, dbuf, di, sbuf, si) ==
    LET h1 == [h EXCEPT ![sbuf][si + 1] = MovedFrom]
    IN [h1 EXCEPT ![dbuf][di + 1] = h[sbuf][si + 1]]

\* new (buf + i) T(val): construct from a value that is left as it is.
ConstructAt(c, buf, i, val, phase) ==
    LET c1 == Tick(c, phase, TRUE)
    IN IF Thrown(c1) THEN c1 ELSE [c1 EXCEPT !.heap[buf][i + 1] = val]

\* The argument of PushBack / EmplaceBack / Insert / Emplace:
\*   "val"  constructor arguments or a const T& outside the vector (value x)
\*   "rv"   a T&& outside the vector (value x), taken by the move constructor
\*   "ref"  a const T& that refers to element i of the vector itself
Args(size) ==
    [kind : {"val", "rv"}, x : Values, i : {-1}]
        \cup [kind : {"ref"}, x : {Default}, i : 0..(size - 1)]

ArgFallible(arg) == arg.kind = "rv" => MoveCtorThrows

\* The value T(std::forward<Args>(args)...) reads when it runs in context c.
ArgValue(c, v, arg) ==
    IF arg.kind = "ref" THEN Slot(c, c.vec[v].buffer, arg.i) ELSE arg.x

\* new (buf + i) T(std::forward<Args>(args)...)
ConstructArgAt(c, buf, i, v, arg, phase) ==
    LET c1 == Tick(c, phase, ArgFallible(arg))
    IN IF Thrown(c1) THEN c1 ELSE [c1 EXCEPT !.heap[buf][i + 1] = ArgValue(c, v, arg)]

\* new (dbuf + di) T(std::move(sbuf[si])): the source is left moved-from.
MoveConstructAt(c, dbuf, di, sbuf, si, phase) ==
    LET c1 == Tick(c, phase, MoveCtorThrows)
    IN IF Thrown(c1) THEN c1
       ELSE [c1 EXCEPT !.heap = MoveSlot(c.heap, dbuf, di, sbuf, si)]

\* dbuf[di] = val: copy assignment, or move assignment from an object that is
\* not in a block (a local or the caller's).
AssignAt(c, dbuf, di, val, phase) ==
    LET c1 == Tick(c, phase, TRUE)
    IN IF Thrown(c1) THEN c1 ELSE [c1 EXCEPT !.heap[dbuf][di + 1] = val]

\* dbuf[di] = std::move(sbuf[si]) (move assignment).
MoveAssignAt(c, dbuf, di, sbuf, si, phase) ==
    LET c1 == Tick(c, phase, TRUE)
    IN IF Thrown(c1) THEN c1
       ELSE [c1 EXCEPT !.heap = MoveSlot(c.heap, dbuf, di, sbuf, si)]

\* (buf + i)->~T()
DestroyAt(c, buf, i) ==
    IF Slot(c, buf, i) = Uninit THEN [c EXCEPT !.baddtor = @ + 1]
    ELSE [c EXCEPT !.heap[buf][i + 1] = Uninit, !.dtors = @ + 1]

\* std::destroy_n(buf + off, n)
RECURSIVE DestroyN(_, _, _, _)
DestroyN(c, buf, off, n) ==
    IF n = 0 THEN c ELSE DestroyN(DestroyAt(c, buf, off), buf, off + 1, n - 1)

\* Variant: a copy loop that leaves what it constructed when a copy throws.
RECURSIVE CopyLoopNoRollback(_, _, _, _, _, _, _, _)
CopyLoopNoRollback(c, sbuf, soff, n, dbuf, doff, j, phase) ==
    IF j = n THEN c
    ELSE LET c1 == ConstructAt(c, dbuf, doff + j, Slot(c, sbuf, soff + j), phase)
         IN IF Thrown(c1) THEN c1
            ELSE CopyLoopNoRollback(c1, sbuf, soff, n, dbuf, doff, j + 1, phase)

\* std::uninitialized_copy_n(sbuf + soff, n, dbuf + doff), from element j on:
\* when a copy throws the elements constructed so far are destroyed.
RECURSIVE UninitCopyFrom(_, _, _, _, _, _, _, _)
UninitCopyFrom(c, sbuf, soff, n, dbuf, doff, j, phase) ==
    IF j = n THEN c
    ELSE LET c1 == ConstructAt(c, dbuf, doff + j, Slot(c, sbuf, soff + j), phase)
         IN IF Thrown(c1) THEN DestroyN(c1, dbuf, doff, j)
            ELSE UninitCopyFrom(c1, sbuf, soff, n, dbuf, doff, j + 1, phase)

UninitCopyN(c, sbuf, soff, n, dbuf, doff, phase) ==
    UninitCopyFrom(c, sbuf, soff, n, dbuf, doff, 0, phase)

\* std::uninitialized_move_n, likewise; the sources already moved stay moved-from.
RECURSIVE UninitMoveFrom(_, _, _, _, _, _, _, _)
UninitMoveFrom(c, sbuf, soff, n, dbuf, doff, j, phase) ==
    IF j = n THEN c
    ELSE LET c1 == MoveConstructAt(c, dbuf, doff + j, sbuf, soff + j, phase)
         IN IF Thrown(c1) THEN DestroyN(c1, dbuf, doff, j)
            ELSE UninitMoveFrom(c1, sbuf, soff, n, dbuf, doff, j + 1, phase)

UninitMoveN(c, sbuf, soff, n, dbuf, doff, phase) ==
    UninitMoveFrom(c, sbuf, soff, n, dbuf, doff, 0, phase)

\* std::uninitialized_value_construct_n(buf + off, n)
RECURSIVE ValueConstructFrom(_, _, _, _, _, _)
ValueConstructFrom(c, buf, off, n, j, phase) ==
    IF j = n THEN c
    ELSE LET c1 == ConstructAt(c, buf, off + j, Default, phase)
         IN IF Thrown(c1) THEN DestroyN(c1, buf, off, j)
            ELSE ValueConstructFrom(c1, buf, off, n, j + 1, phase)

\* std::copy(sbuf + soff, sbuf + soff + n, dbuf + doff): copy assignment, forward.
RECURSIVE StdCopy(_, _, _, _, _, _, _)
StdCopy(c, sbuf, soff, n, dbuf, doff, phase) ==
    IF n = 0 THEN c
    ELSE LET c1 == AssignAt(c, dbuf, doff, Slot(c, sbuf, soff), phase)
         IN IF Thrown(c1) THEN c1
            ELSE StdCopy(c1, sbuf, soff + 1, n - 1, dbuf, doff + 1, phase)

\* std::move(buf + first, buf + lst, buf + dst): move assignment, forward.
RECURSIVE StdMove(_, _, _, _, _, _)
StdMove(c, buf, first, lst, dst, phase) ==
    IF first >= lst THEN c
    ELSE LET c1 == MoveAssignAt(c, buf, dst, buf, first, phase)
         IN IF Thrown(c1) THEN c1
            ELSE StdMove(c1, buf, first + 1, lst, dst + 1, phase)

\* Variant: the shift toward the end runs from the front.
RECURSIVE ShiftFromFront(_, _, _, _, _, _)
ShiftFromFront(c, buf, first, lst, dlast, phase) ==
    IF first >= lst THEN c
    ELSE LET c1 == MoveAssignAt(c, buf, dlast - (lst - first), buf, first, phase)
         IN IF Thrown(c1) THEN c1
            ELSE ShiftFromFront(c1, buf, first + 1, lst, dlast, phase)

\* std::move_backward(buf + first, buf + lst, buf + dlast): from the back.
RECURSIVE StdMoveBackward(_, _, _, _, _, _)
StdMoveBackward(c, buf, first, lst, dlast, phase) ==
    IF first >= lst THEN c
    ELSE LET c1 == MoveAssignAt(c, buf, dlast - 1, buf, lst - 1, phase)
         IN IF Thrown(c1) THEN c1
            ELSE StdMoveBackward(c1, buf, first, lst - 1, dlast - 1, phase)

\* Variant: every reallocation moves.
AlwaysMigrateByMove == TRUE

\* The trait test of every reallocation:
\* is_nothrow_move_constructible_v<T> || !is_copy_constructible_v<T>
MigrateByMove == T.nothrow_move \/ ~T.copyable

Migrate(c, sbuf, soff, n, dbuf, doff, phase) ==
    IF n = 0 THEN c
    ELSE IF MigrateByMove THEN UninitMoveN(c, sbuf, soff, n, dbuf, doff, phase)
    ELSE UninitCopyN(c, sbuf, soff, n, dbuf, doff, phase)

\* Variant: the swap exchanges buffer_ and leaves capacity_.
SwapDataBufferOnly(c, v, nbuf, ncap) ==
    [c EXCEPT !.vec[v].buffer = nbuf]

\* RawMemory::Swap(new_data) for the data_ of vector v.
SwapData(c, v, nbuf, ncap) ==
    [c EXCEPT !.vec[v].buffer = nbuf, !.vec[v].capacity = ncap]

\* The observable contents of a vector: the values in slots [0, size).
Contents(h, w) == [i \in 1..w.size |-> h[w.buffer][i]]

\* ------------------------------------------------------- Vector bodies
\* ~Vector(): destroy the size_ elements, then ~RawMemory.
VectorDtor(c, v) ==
    LET w == c.vec[v]
        c1 == DestroyN(c, w.buffer, 0, w.size)
        c2 == RawMemoryDtor(c1, w.buffer)
    IN [c2 EXCEPT !.vec[v] = DeadVec]

\* Vector(size_t size)
SizedCtor(c, v, n) ==
    LET nb == NewBuffer(c, n)
        c1 == RawMemoryCtor(c, n)
        c2 == ValueConstructFrom(c1, nb, 0, n, 0, "value")
    IN IF Thrown(c1) THEN c1
       ELSE IF Thrown(c2) THEN RawMemoryDtor(c2, nb)
       ELSE [c2 EXCEPT !.vec[v] = [alive |-> TRUE, buffer |-> nb, capacity |-> n, size |-> n]]

\* Vector(const Vector& other), building the storage of the copy: on success
\* block NewBuffer(c, other.size_) holds the copies, on failure it is freed.
CopyStorage(c, o) ==
    LET w == c.vec[o]
        nb == NewBuffer(c, w.size)
        c1 == RawMemoryCtor(c, w.size)
        c2 == UninitCopyN(c1, w.buffer, 0, w.size, nb, 0, "copy")
    IN IF Thrown(c1) THEN c1
       ELSE IF Thrown(c2) THEN RawMemoryDtor(c2, nb)
       ELSE c2

\* Variant: a copy that takes over the other vector's members.
CopyCtorShallow(c, v, o) ==
    [c EXCEPT !.vec[v] = [c.vec[o] EXCEPT !.alive = TRUE]]

CopyCtor(c, v, o) ==
    LET n == c.vec[o].size
        nb == NewBuffer(c, n)
        c1 == CopyStorage(c, o)
    IN IF Thrown(c1) THEN c1
       ELSE [c1 EXCEPT !.vec[v] = [alive |-> TRUE, buffer |-> nb, capacity |-> n, size |-> n]]

\* void Swap(Vector& other) noexcept
SwapOp(c, v, o) ==
    [c EXCEPT !.vec[v] = c.vec[o], !.vec[o] = c.vec[v]]

\* Variant: the new vector takes the members and the source keeps them.
MoveCtorKeepSource(c, v, o) ==
    [c EXCEPT !.vec[v] = c.vec[o]]

\* Vector(Vector&& other) noexcept: default members, then Swap(other).
MoveCtor(c, v, o) == SwapOp([c EXCEPT !.vec[v] = EmptyVec], v, o)

\* Vector& operator=(Vector&& rhs) noexcept
MoveAssign(c, v, r) == IF v # r THEN SwapOp(c, v, r) ELSE c

\* Variant: assignment that destroys its own elements before it copies.
CopyAssignClearFirst(c, v, r) ==
    LET w == c.vec[v]
        rhs == c.vec[r]
        c0 == [DestroyN(c, w.buffer, 0, w.size) EXCEPT !.vec[v].size = 0]
        nb == NewBuffer(c0, rhs.size)
        c1 == CopyStorage(c0, r)
        c2 == [c1 EXCEPT !.vec[v].buffer = nb,
                         !.vec[v].capacity = rhs.size,
                         !.vec[v].size = rhs.size]
        d1 == UninitCopyN(c0, rhs.buffer, 0, rhs.size, w.buffer, 0, "copy")
    IN IF v = r THEN c
       ELSE IF rhs.size > w.capacity
       THEN (IF Thrown(c1) THEN c1 ELSE RawMemoryDtor(c2, w.buffer))
       ELSE IF Thrown(d1) THEN d1
       ELSE [d1 EXCEPT !.vec[v].size = rhs.size]

\* Vector& operator=(const Vector& rhs)
CopyAssign(c, v, r) ==
    LET w == c.vec[v]
        rhs == c.vec[r]
    IN IF v = r THEN c
       ELSE IF rhs.size > w.capacity
       THEN \* Vector rhs_copy(rhs); Swap(rhs_copy); ~rhs_copy
            LET nb == NewBuffer(c, rhs.size)
                c1 == CopyStorage(c, r)
                c2 == [c1 EXCEPT !.vec[v].buffer = nb,
                                 !.vec[v].capacity = rhs.size,
                                 !.vec[v].size = rhs.size]
                c3 == DestroyN(c2, w.buffer, 0, w.size)
            IN IF Thrown(c1) THEN c1 ELSE RawMemoryDtor(c3, w.buffer)
       ELSE IF rhs.size < w.size
       THEN LET c1 == StdCopy(c, rhs.buffer, 0, rhs.size, w.buffer, 0, "assign")
                c2 == DestroyN(c1, w.buffer, rhs.size, w.size - rhs.size)
            IN IF Thrown(c1) THEN c1 ELSE [c2 EXCEPT !.vec[v].size = rhs.size]
       ELSE LET c1 == StdCopy(c, rhs.buffer, 0, w.size, w.buffer, 0, "assign")
                c2 == UninitCopyN(c1, rhs.buffer, w.size, rhs.size - w.size,
                                  w.buffer, w.size, "copy")
            IN IF Thrown(c1) THEN c1
               ELSE IF Thrown(c2) THEN c2
               ELSE [c2 EXCEPT !.vec[v].size = rhs.size]

\* Variant: capacity >= data_.Capacity() instead of >.
ReserveAtLeast(c, v, n) ==
    LET w == c.vec[v]
        nb == NewBuffer(c, n)
        c1 == RawMemoryCtor(c, n)
        c2 == Migrate(c1, w.buffer, 0, w.size, nb, 0, "migrate")
        c3 == DestroyN(c2, w.buffer, 0, w.size)
        c4 == SwapData(c3, v, nb, n)
    IN IF n >= w.capacity
       THEN IF Thrown(c1) THEN c1
            ELSE IF Thrown(c2) THEN RawMemoryDtor(c2, nb)
            ELSE RawMemoryDtor(c4, w.buffer)
       ELSE c

\* Variant: the new block is not released when the migration throws.
ReserveLeakOnThrow(c, v, n) ==
    LET w == c.vec[v]
        nb == NewBuffer(c, n)
        c1 == RawMemoryCtor(c, n)
        c2 == Migrate(c1, w.buffer, 0, w.size, nb, 0, "migrate")
        c3 == DestroyN(c2, w.buffer, 0, w.size)
        c4 == SwapData(c3, v, nb, n)
    IN IF n > w.capacity
       THEN IF Thrown(c1) THEN c1
            ELSE IF Thrown(c2) THEN c2
            ELSE RawMemoryDtor(c4, w.buffer)
       ELSE c

\* void Reserve(size_t capacity)
Reserve(c, v, n) ==
    LET w == c.vec[v]
        nb == NewBuffer(c, n)
        c1 == RawMemoryCtor(c, n)
        c2 == Migrate(c1, w.buffer, 0, w.size, nb, 0, "migrate")
        c3 == DestroyN(c2, w.buffer, 0, w.size)
        c4 == SwapData(c3, v, nb, n)
    IN IF n > w.capacity
       THEN IF Thrown(c1) THEN c1
            ELSE IF Thrown(c2) THEN RawMemoryDtor(c2, nb)
            ELSE RawMemoryDtor(c4, w.buffer)
       ELSE c

\* Variant: shrinking only lowers size_.
ResizeKeepTail(c, v, n) ==
    LET w == c.vec[v]
    IN IF n > w.size
       THEN LET c1 == Reserve(c, v, n)
                c2 == ValueConstructFrom(c1, c1.vec[v].buffer, w.size, n - w.size, 0, "value")
            IN IF Thrown(c1) THEN c1
               ELSE IF Thrown(c2) THEN c2
               ELSE [c2 EXCEPT !.vec[v].size = n]
       ELSE [c EXCEPT !.vec[v].size = n]

\* void Resize(size_t new_size)
Resize(c, v, n) ==
    LET w == c.vec[v]
    IN IF n > w.size
       THEN LET c1 == Reserve(c, v, n)
                c2 == ValueConstructFrom(c1, c1.vec[v].buffer, w.size, n - w.size, 0, "value")
            IN IF Thrown(c1) THEN c1
               ELSE IF Thrown(c2) THEN c2
               ELSE [c2 EXCEPT !.vec[v].size = n]
       ELSE [DestroyN(c, w.buffer, n, w.size - n) EXCEPT !.vec[v].size = n]

\* Variant: grow by one slot.
GrowByOne(size) == size + 1

\* size_ == 0 ? 1 : size_ * 2
GrownCapacity(size) == IF size = 0 THEN 1 ELSE size * 2

\* Variant: the elements are migrated before the new element is constructed.
PushBackMigrateFirst(c, v, arg) ==
    LET w == c.vec[v]
        ncap == GrownCapacity(w.size)
        nb == NewBuffer(c, ncap)
        c1 == RawMemoryCtor(c, ncap)
        c2 == Migrate(c1, w.buffer, 0, w.size, nb, 0, "migrate")
        c3 == ConstructArgAt(c2, nb, w.size, v, arg, "construct")
        c4 == DestroyN(c3, w.buffer, 0, w.size)
        c5 == SwapData(c4, v, nb, ncap)
        c6 == RawMemoryDtor(c5, w.buffer)
        d1 == ConstructArgAt(c, w.buffer, w.size, v, arg, "construct")
    IN IF w.size = w.capacity
       THEN IF Thrown(c1) THEN c1
            ELSE IF Thrown(c2) THEN RawMemoryDtor(c2, nb)
            ELSE IF Thrown(c3) THEN RawMemoryDtor(c3, nb)
            ELSE [c6 EXCEPT !.vec[v].size = @ + 1]
       ELSE IF Thrown(d1) THEN d1
            ELSE [d1 EXCEPT !.vec[v].size = @ + 1]

\* PushBack(Type&& value) and EmplaceBack(Args&&... args): the same statements.
PushBack(c, v, arg) ==
    LET w == c.vec[v]
        ncap == GrownCapacity(w.size)
        nb == NewBuffer(c, ncap)
        c1 == RawMemoryCtor(c, ncap)
        c2 == ConstructArgAt(c1, nb, w.size, v, arg, "construct")
        c3 == Migrate(c2, w.buffer, 0, w.size, nb, 0, "migrate")
        c4 == DestroyN(c3, w.buffer, 0, w.size)
        c5 == SwapData(c4, v, nb, ncap)
        c6 == RawMemoryDtor(c5, w.buffer)
        d1 == ConstructArgAt(c, w.buffer, w.size, v, arg, "construct")
    IN IF w.size = w.capacity
       THEN IF Thrown(c1) THEN c1
            ELSE IF Thrown(c2) THEN RawMemoryDtor(c2, nb)
            ELSE IF Thrown(c3) THEN RawMemoryDtor(c3, nb)
            ELSE [c6 EXCEPT !.vec[v].size = @ + 1]
       ELSE IF Thrown(d1) THEN d1
            ELSE [d1 EXCEPT !.vec[v].size = @ + 1]

\* Variant: EmplaceBack migrates before it constructs the new element.
EmplaceBackMigrateFirst(c, v, arg) ==
    LET w == c.vec[v]
        ncap == GrownCapacity(w.size)
        nb == NewBuffer(c, ncap)
        c1 == RawMemoryCtor(c, ncap)
        c2 == Migrate(c1, w.buffer, 0, w.size, nb, 0, "migrate")
        c3 == ConstructArgAt(c2, nb, w.size, v, arg, "construct")
        c4 == DestroyN(c3, w.buffer, 0, w.size)
        c5 == SwapData(c4, v, nb, ncap)
        c6 == RawMemoryDtor(c5, w.buffer)
        d1 == ConstructArgAt(c, w.buffer, w.size, v, arg, "construct")
    IN IF w.size = w.capacity
       THEN IF Thrown(c1) THEN c1
            ELSE IF Thrown(c2) THEN RawMemoryDtor(c2, nb)
            ELSE IF Thrown(c3) THEN RawMemoryDtor(c3, nb)
            ELSE [c6 EXCEPT !.vec[v].size = @ + 1]
       ELSE IF Thrown(d1) THEN d1
            ELSE [d1 EXCEPT !.vec[v].size = @ + 1]

\* T& EmplaceBack(Args&&... args)
EmplaceBack(c, v, arg) ==
    LET w == c.vec[v]
        ncap == GrownCapacity(w.size)
        nb == NewBuffer(c, ncap)
        c1 == RawMemoryCtor(c, ncap)
        c2 == ConstructArgAt(c1, nb, w.size, v, arg, "construct")
        c3 == Migrate(c2, w.buffer, 0, w.size, nb, 0, "migrate")
        c4 == DestroyN(c3, w.buffer, 0, w.size)
        c5 == SwapData(c4, v, nb, ncap)
        c6 == RawMemoryDtor(c5, w.buffer)
        d1 == ConstructArgAt(c, w.buffer, w.size, v, arg, "construct")
    IN IF w.size = w.capacity
       THEN IF Thrown(c1) THEN c1
            ELSE IF Thrown(c2) THEN RawMemoryDtor(c2, nb)
            ELSE IF Thrown(c3) THEN RawMemoryDtor(c3, nb)
            ELSE [c6 EXCEPT !.vec[v].size = @ + 1]
       ELSE IF Thrown(d1) THEN d1
            ELSE [d1 EXCEPT !.vec[v].size = @ + 1]

\* return data_[size_ - 1]: the slot the returned reference names
EmplaceBackResult(c, v) == [buf |-> c.vec[v].buffer, idx |-> c.vec[v].size - 1]

\* void PopBack() noexcept
PopBack(c, v) ==
    LET w == c.vec[v]
    IN [DestroyAt(c, w.buffer, w.size - 1) EXCEPT !.vec[v].size = @ - 1]

\* Emplace, size_ < Capacity(): construct at the end, or shift and assign.
EmplaceInPlace(c, v, index, arg) ==
    LET w == c.vec[v]
        buf == w.buffer
        e1 == ConstructArgAt(c, buf, w.size, v, arg, "construct")
        \* T temp(std::forward<Args>(args)...)
        temp == ArgValue(c, v, arg)
        c1 == Tick(c, "temp", ArgFallible(arg))
        \* new (data_ + size_) T(std::forward<T>(*(end() - 1)))
        c2 == MoveConstructAt(c1, buf, w.size, buf, w.size - 1, "last")
        \* std::move_backward(begin() + index, end() - 1, end())
        c3 == StdMoveBackward(c2, buf, index, w.size - 1, w.size, "shift")
        \* data_[index] = std::move(temp)
        c4 == AssignAt(c3, buf, index, temp, "assign")
    IN IF index = w.size
       THEN (IF Thrown(e1) THEN e1 ELSE [e1 EXCEPT !.vec[v].size = @ + 1])
       ELSE IF Thrown(c1) THEN c1
       ELSE IF Thrown(c2) THEN c2
       ELSE IF Thrown(c3) THEN c3
       ELSE IF Thrown(c4) THEN c4
       ELSE [c4 EXCEPT !.vec[v].size = @ + 1]

\* Emplace, size_ == Capacity(): prefix, new element, suffix into new_data.
EmplaceRealloc(c, v, index, arg) ==
    LET w == c.vec[v]
        ncap == GrownCapacity(w.size)
        nb == NewBuffer(c, ncap)
        c1 == RawMemoryCtor(c, ncap)
        p == Migrate(c1, w.buffer, 0, index, nb, 0, "prefix")
        \* catch (...) { std::destroy_n(new_data.GetAddress(), index); throw; }
        c2 == IF Thrown(p) /\ ~MigrateByMove THEN DestroyN(p, nb, 0, index) ELSE p
        c3 == ConstructArgAt(c2, nb, index, v, arg, "construct")
        s == Migrate(c3, w.buffer, index, w.size - index, nb, index + 1, "suffix")
        \* catch (...) { std::destroy_n(new_elem_pos, 1); throw; }
        c4 == IF Thrown(s) /\ ~MigrateByMove THEN DestroyN(s, nb, index, 1) ELSE s
        c5 == DestroyN(c4, w.buffer, 0, w.size)
        c6 == SwapData(c5, v, nb, ncap)
        c7 == RawMemoryDtor(c6, w.buffer)
    IN IF Thrown(c1) THEN c1
       ELSE IF Thrown(c2) THEN RawMemoryDtor(c2, nb)
       ELSE IF Thrown(c3) THEN RawMemoryDtor(c3, nb)
       ELSE IF Thrown(c4) THEN RawMemoryDtor(c4, nb)
       ELSE [c7 EXCEPT !.vec[v].size = @ + 1]

\* iterator Emplace(const_iterator pos, Args&&... args), pos = begin() + index
Emplace(c, v, index, arg) ==
    IF c.vec[v].size < c.vec[v].capacity
    THEN EmplaceInPlace(c, v, index, arg)
    ELSE EmplaceRealloc(c, v, index, arg)

\* return begin() + index: the slot the returned iterator names
EmplaceResult(c, v, index) == [buf |-> c.vec[v].buffer, idx |-> index]

\* iterator Insert(const_iterator pos, const T& value) / (..., T&& value)
Insert(c, v, index, arg) == Emplace(c, v, index, arg)

\* Variant: the shift starts at pos instead of pos + 1.
EraseFromPos(c, v, index) ==
    LET w == c.vec[v]
        c1 == StdMove(c, w.buffer, index, w.size, index, "shift")
        c2 == DestroyAt(c1, w.buffer, w.size - 1)
    IN IF Thrown(c1) THEN c1 ELSE [c2 EXCEPT !.vec[v].size = @ - 1]

\* iterator Erase(const_iterator pos), pos = begin() + index
Erase(c, v, index) ==
    LET w == c.vec[v]
        c1 == StdMove(c, w.buffer, index + 1, w.size, index, "shift")
        c2 == DestroyAt(c1, w.buffer, w.size - 1)
    IN IF Thrown(c1) THEN c1 ELSE [c2 EXCEPT !.vec[v].size = @ - 1]

\* return non_const_pos: the slot the returned iterator names
EraseResult(c0, v, index) == [buf |-> c0.vec[v].buffer, idx |-> index]

\* T& operator[](size_t index) used to assign a value: v[index] = x
WriteAt(c, v, index, x) ==
    AssignAt(c, c.vec[v].buffer, index, x, "assign")

\* ------------------------------------------------------------- actions
\* The call ends in context c.  A destructor run on a slot without a live
\* object is undefined behaviour: the program goes on, or it stops.
Return(c) ==
    /\ heap' = c.heap
    /\ vec' = c.vec
    /\ halted' \in (IF c.baddtor > 0 THEN BOOLEAN ELSE {FALSE})
    /\ UNCHANGED <<T, room>>

Start(fuel) == Ctx(heap, vec, fuel)

Callable(v) == ~halted /\ vec[v].alive

\* The arguments each overload accepts for the element type T.
PushBackArgs(v) ==
    {a \in Args(vec[v].size) : a.kind = "rv" \/ T.copyable}
EmplaceArgs(v) ==
    {a \in Args(vec[v].size) : a.kind = "val" \/ (a.kind = "ref" /\ T.copyable)}
Indices(v) == 0..(vec[v].size - 1)
\* No call on v runs more than vec[v].size + 2 fallible element operations.
Fuels(v) == FuelsTo(vec[v].size + 1)

DefaultCtorAct(v) ==
    /\ ~halted /\ ~vec[v].alive
    /\ Return([Start(<<>>) EXCEPT !.vec[v] = EmptyVec])

SizedCtorAct(v) ==
    /\ ~halted /\ ~vec[v].alive
    /\ \E n \in 0..room.count : \E fuel \in FuelsTo(n) :
         Return(SizedCtor(Start(fuel), v, n))

CopyCtorAct(v) ==
    /\ ~halted /\ ~vec[v].alive /\ T.copyable
    /\ \E o \in Vecs \ {v} : \E fuel \in Fuels(o) :
         /\ vec[o].alive
         /\ Return(CopyCtor(Start(fuel), v, o))

MoveCtorAct(v) ==
    /\ ~halted /\ ~vec[v].alive
    /\ \E o \in Vecs \ {v} :
         /\ vec[o].alive
         /\ Return(MoveCtor(Start(<<>>), v, o))

DtorAct(v) ==
    /\ Callable(v)
    /\ Return(VectorDtor(Start(<<>>), v))

CopyAssignAct(v) ==
    /\ Callable(v) /\ T.copyable
    /\ \E r \in Vecs : \E fuel \in Fuels(r) :
         /\ vec[r].alive
         /\ Return(CopyAssign(Start(fuel), v, r))

MoveAssignAct(v) ==
    /\ Callable(v)
    /\ \E r \in Vecs :
         /\ vec[r].alive
         /\ Return(MoveAssign(Start(<<>>), v, r))

SwapAct(v) ==
    /\ Callable(v)
    /\ \E o \in Vecs :
         /\ vec[o].alive
         /\ Return(SwapOp(Start(<<>>), v, o))

ReserveAct(v) ==
    /\ Callable(v)
    /\ \E n \in 0..room.count, fuel \in Fuels(v) :
         Return(Reserve(Start(fuel), v, n))

ResizeAct(v) ==
    /\ Callable(v)
    /\ \E n \in 0..room.count : \E fuel \in FuelsTo(n) :
         Return(Resize(Start(fuel), v, n))

PushBackAct(v) ==
    /\ Callable(v)
    /\ \E arg \in PushBackArgs(v), fuel \in Fuels(v) :
         Return(PushBack(Start(fuel), v, arg))

EmplaceBackAct(v) ==
    /\ Callable(v)
    /\ \E arg \in EmplaceArgs(v), fuel \in Fuels(v) :
         Return(EmplaceBack(Start(fuel), v, arg))

PopBackAct(v) ==
    /\ Callable(v) /\ vec[v].size # 0
    /\ Return(PopBack(Start(<<>>), v))

InsertAct(v) ==
    /\ Callable(v)
    /\ \E index \in 0..vec[v].size, arg \in PushBackArgs(v), fuel \in Fuels(v) :
         Return(Insert(Start(fuel), v, index, arg))

EmplaceAct(v) ==
    /\ Callable(v)
    /\ \E index \in 0..vec[v].size, arg \in EmplaceArgs(v), fuel \in Fuels(v) :
         Return(Emplace(Start(fuel), v, index, arg))

EraseAct(v) ==
    /\ Callable(v)
    /\ \E index \in Indices(v), fuel \in Fuels(v) :
         Return(Erase(Start(fuel), v, index))

WriteAct(v) ==
    /\ Callable(v)
    /\ \E index \in Indices(v), x \in Values, fuel \in {<<>>, <<0>>} :
         Return(WriteAt(Start(fuel), v, index, x))

\* The operations on one vector.
Unary(v) ==
    \/ DefaultCtorAct(v)
    \/ SizedCtorAct(v)
    \/ DtorAct(v)
    \/ ReserveAct(v)
    \/ ResizeAct(v)
    \/ PushBackAct(v)
    \/ EmplaceBackAct(v)
    \/ PopBackAct(v)
    \/ InsertAct(v)
    \/ EmplaceAct(v)
    \/ EraseAct(v)
    \/ WriteAct(v)

\* The operations that take another vector (or the vector itself).
Binary(v) ==
    \/ CopyCtorAct(v)
    \/ MoveCtorAct(v)
    \/ CopyAssignAct(v)
    \/ MoveAssignAct(v)
    \/ SwapAct(v)

\* A program with one vector, a, default-constructed.
Init ==
    /\ T \in ElemTypes
    /\ room = [slots |-> HeapSlots, count |-> MaxCap]
    /\ heap = [b \in Blocks |-> <<>>]
    /\ vec = [v \in Vecs |-> IF v = "a" THEN EmptyVec ELSE DeadVec]
    /\ halted = FALSE

Next == Unary("a")

Spec == Init /\ [][Next]_vars

\* A program with two vectors, a and b, default-constructed.
InitPair ==
    /\ T \in ElemTypes
    /\ room = [slots |-> PairSlots, count |-> PairCap]
    /\ heap = [b \in Blocks |-> <<>>]
    /\ vec = [v \in Vecs |-> EmptyVec]
    /\ halted = FALSE

NextPair == \E v \in Vecs : Unary(v) \/ Binary(v)

SpecPair == InitPair /\ [][NextPair]_vars

\* ---------------------------------------------------------------- claims
\* The claims are stated over every call that can be made in a reachable
\* state: c is the context in which the call ends, the unprimed variables
\* are the state in which it was made.

\* What a caller observes of vector v when a call ends in context c.
After(c, v) == Contents(c.heap, c.vec[v])
Before(v) == Contents(heap, vec[v])

\* Size, capacity and element values of v are what they were before the call.
Untouched(c, v) ==
    /\ c.vec[v].size = vec[v].size
    /\ c.vec[v].capacity = vec[v].capacity
    /\ After(c, v) = Before(v)

InsertAt(s, k, x) == SubSeq(s, 1, k) \o <<x>> \o SubSeq(s, k + 1, Len(s))
RemoveAt(s, k) == SubSeq(s, 1, k) \o SubSeq(s, k + 2, Len(s))

Full(v) == vec[v].size = vec[v].capacity
Val(x) == [kind |-> "val", x |-> x, i |-> -1]
Ref(i) == [kind |-> "ref", x |-> Default, i |-> i]

\* C1: in every reachable state, also after calls that threw, every vector
\* has 0 <= Size() <= Capacity().
C1_SizeWithinCapacity ==
    \A v \in Vecs : vec[v].alive => 0 <= vec[v].size /\ vec[v].size <= vec[v].capacity

\* A vector with a live object in slot size_: only an Emplace that threw
\* while shifting leaves one.
C1_Witness ==
    \E v \in Vecs :
        /\ vec[v].alive /\ vec[v].size >= 1 /\ vec[v].size < vec[v].capacity
        /\ heap[vec[v].buffer][vec[v].size + 1] # Uninit

\* C2: a reallocating Insert / Emplace (size = capacity) at any index whose
\* construction of the new element in the new block throws leaves size,
\* capacity and all element values as they were, whichever way T migrates
\* (by move when its move constructor is nothrow, by copy otherwise).
\* Stated of every step that is such a call.
C2_EmplaceConstructThrowUntouched ==
    [][\A v \in Vecs : Callable(v) /\ Full(v) /\ (T.nothrow_move \/ T.copyable) =>
        \A index \in 0..vec[v].size, arg \in PushBackArgs(v) \cup EmplaceArgs(v), fuel \in Fuels(v) :
            LET c == Emplace(Start(fuel), v, index, arg)
            IN c.exc = "construct" /\ heap' = c.heap /\ vec' = c.vec =>
                 /\ vec'[v].size = vec[v].size
                 /\ vec'[v].capacity = vec[v].capacity
                 /\ Contents(heap', vec'[v]) = Before(v)]_vars

\* C3: a reallocating PushBack / EmplaceBack (size = capacity) on a T that is
\* copy-constructible or nothrow-move-constructible, whose construction of
\* the new element or whose copy of an existing element throws, leaves size,
\* capacity and all element values as they were.
C3_AppendThrowUntouched ==
    \A v \in Vecs : Callable(v) /\ Full(v) /\ (T.copyable \/ T.nothrow_move) =>
        \A fuel \in Fuels(v) :
            /\ \A arg \in PushBackArgs(v) :
                 LET c == PushBack(Start(fuel), v, arg)
                 IN c.exc \in {"construct", "migrate"} => Untouched(c, v) /\ c.vec = vec
            /\ \A arg \in EmplaceArgs(v) :
                 LET c == EmplaceBack(Start(fuel), v, arg)
                 IN c.exc \in {"construct", "migrate"} => Untouched(c, v) /\ c.vec = vec

\* A full vector of two elements of a copy-migrated T, where the copy of the
\* second element into the new block throws.
C3_Witness ==
    \E v \in Vecs :
        /\ Callable(v) /\ Full(v) /\ vec[v].size >= 2
        /\ T.copyable /\ ~T.nothrow_move
        /\ PushBack(Start(<<2>>), v, Val(Default)).exc = "migrate"
        /\ EmplaceBack(Start(<<0>>), v, Val(Default)).exc = "construct"

\* C4: Insert(pos, v[i]) with the value a reference to element i of the
\* vector itself yields, for every index and every i, with and without
\* reallocation, what inserting a separate value equal to v[i] yields.
\* Stated of every step that is such a call.
C4_SelfInsert ==
    [][\A v \in Vecs : Callable(v) /\ T.copyable =>
        \A index \in 0..vec[v].size, i \in Indices(v) :
            LET c == Insert(Start(<<>>), v, index, Ref(i))
            IN ~Thrown(c) /\ heap' = c.heap /\ vec' = c.vec =>
                 Contents(heap', vec'[v]) = InsertAt(Before(v), index, Before(v)[i + 1])]_vars

\* C5: a successful Insert / Emplace of a value x at index k yields
\* s[0..k) ++ [x] ++ s[k..size), size + 1 elements, and returns the iterator
\* to index k, on the in-capacity path and on the reallocating path.
C5_InsertAtIndex ==
    \A v \in Vecs : Callable(v) =>
        \A index \in 0..vec[v].size, arg \in PushBackArgs(v) \cup EmplaceArgs(v), fuel \in Fuels(v) :
            LET c == Emplace(Start(fuel), v, index, arg)
                d == Insert(Start(fuel), v, index, arg)
            IN arg.kind # "ref" /\ ~Thrown(c) =>
                 /\ After(c, v) = InsertAt(Before(v), index, arg.x)
                 /\ c.vec[v].size = vec[v].size + 1
                 /\ EmplaceResult(c, v, index) = [buf |-> c.vec[v].buffer, idx |-> index]
                 /\ c.heap[EmplaceResult(c, v, index).buf][EmplaceResult(c, v, index).idx + 1] = arg.x
                 /\ d = c

\* A vector that starts with two distinct elements and has room for an
\* insertion between them.
C5_Witness ==
    \E v \in Vecs :
        /\ Callable(v) /\ vec[v].size >= 2 /\ ~Full(v)
        /\ Before(v)[1] # Before(v)[2]
        /\ ~Thrown(Emplace(Start(<<>>), v, 1, Val(Default)))
        /\ After(Emplace(Start(<<>>), v, 1, Val(Default)), v)
             = <<Before(v)[1], Default>> \o SubSeq(Before(v), 2, vec[v].size)

\* C6: a successful Erase at index k yields s[0..k) ++ s[k+1..size): one
\* element less, the capacity unchanged, exactly one element destroyed (the
\* vacated last slot), and returns the iterator to index k.
C6_EraseAtIndex ==
    \A v \in Vecs : Callable(v) =>
        \A index \in Indices(v), fuel \in Fuels(v) :
            LET c == Erase(Start(fuel), v, index)
            IN ~Thrown(c) =>
                 /\ After(c, v) = RemoveAt(Before(v), index)
                 /\ c.vec[v].size = vec[v].size - 1
                 /\ c.vec[v].capacity = vec[v].capacity
                 /\ c.dtors = 1 /\ c.baddtor = 0
                 /\ c.heap[vec[v].buffer][vec[v].size] = Uninit
                 /\ EraseResult(c, v, index) = [buf |-> vec[v].buffer, idx |-> index]

\* Erasing the first of three elements, the other two distinct.
C6_Witness ==
    \E v \in Vecs :
        /\ Callable(v) /\ vec[v].size >= 3
        /\ Before(v)[2] # Before(v)[3]
        /\ After(Erase(Start(<<>>), v, 0), v) = <<Before(v)[2], Before(v)[3]>>

Max(a, b) == IF a >= b THEN a ELSE b

\* The four operations that add one element, as calls on v.
Adds(v, fuel) ==
    {PushBack(Start(fuel), v, arg) : arg \in PushBackArgs(v)}
        \cup {EmplaceBack(Start(fuel), v, arg) : arg \in EmplaceArgs(v)}
        \cup {Insert(Start(fuel), v, index, arg) : index \in 0..vec[v].size, arg \in PushBackArgs(v)}
        \cup {Emplace(Start(fuel), v, index, arg) : index \in 0..vec[v].size, arg \in EmplaceArgs(v)}

\* C7: PushBack, EmplaceBack, Insert and Emplace called with size = capacity
\* allocate exactly one block and, when they return, the capacity is
\* max(1, 2 * size); called with size < capacity they allocate nothing and
\* the capacity stays.  (From empty, appending gives capacities 1, 2, 4, ...)
C7_GrowthPolicy ==
    \A v \in Vecs : Callable(v) =>
        \A fuel \in Fuels(v) : \A c \in Adds(v, fuel) :
            IF Full(v)
            THEN /\ c.exc # "alloc" => c.allocs = 1
                 /\ ~Thrown(c) => c.vec[v].capacity = Max(1, 2 * vec[v].size)
            ELSE c.allocs = 0 /\ c.vec[v].capacity = vec[v].capacity

\* A full vector of two elements grows to capacity four.
C7_Witness ==
    \E v \in Vecs :
        /\ Callable(v) /\ Full(v) /\ vec[v].size = 2
        /\ PushBack(Start(<<>>), v, [kind |-> "rv", x |-> Default, i |-> -1]).vec[v].capacity = 4

\* C8: a successful Reserve(n) changes neither the size nor the values at
\* [0, size); with n <= capacity it allocates nothing and keeps the block and
\* the capacity; with n > capacity the capacity becomes exactly n.
C8_Reserve ==
    \A v \in Vecs : Callable(v) =>
        \A n \in 0..room.count, fuel \in Fuels(v) :
            LET c == Reserve(Start(fuel), v, n)
            IN ~Thrown(c) =>
                 /\ c.vec[v].size = vec[v].size
                 /\ After(c, v) = Before(v)
                 /\ IF n <= vec[v].capacity
                    THEN c.allocs = 0 /\ c.vec = vec /\ c.heap = heap
                    ELSE c.vec[v].capacity = n

\* Reserve(n) with n = capacity on a vector of two distinct elements, and a
\* Reserve that takes them to a larger block.
C8_Witness ==
    \E v \in Vecs :
        /\ Callable(v) /\ vec[v].size = 2 /\ vec[v].capacity = 2
        /\ Before(v)[1] # Before(v)[2]
        /\ Reserve(Start(<<>>), v, 2).allocs = 0
        /\ Reserve(Start(<<>>), v, 4).vec[v].capacity = 4
        /\ After(Reserve(Start(<<>>), v, 4), v) = Before(v)

\* C9: when Reserve(n), n > capacity, migrates by copy (T copy-constructible
\* with a move constructor that may throw) and the copy of element j throws,
\* the j elements already copied are destroyed, the new block is freed, and
\* size, capacity and element values of the vector are as before.
C9_ReserveCopyThrow ==
    \A v \in Vecs : Callable(v) /\ T.copyable /\ ~T.nothrow_move =>
        \A n \in 0..room.count, j \in Indices(v) :
            LET c == Reserve(Start(<<j>>), v, n)
            IN n > vec[v].capacity /\ c.exc # "alloc" =>
                 /\ c.exc = "migrate"
                 /\ c.dtors = j /\ c.baddtor = 0 /\ c.leaked = 0
                 /\ c.allocs = 1 /\ c.frees = 1
                 /\ c.heap = heap /\ c.vec = vec

\* The copy of the second of two elements throws in Reserve.
C9_Witness ==
    \E v \in Vecs :
        /\ Callable(v) /\ T.copyable /\ ~T.nothrow_move
        /\ vec[v].size = 2 /\ vec[v].capacity < 4
        /\ Reserve(Start(<<1>>), v, 4).exc = "migrate"
        /\ Reserve(Start(<<1>>), v, 4).dtors = 1

\* C10: copy assignment a = rhs with rhs.size > a.capacity: when the copy of
\* an element of rhs throws, size, capacity and element values of a are as
\* before, and rhs is unchanged.
C10_CopyAssignStrong ==
    \A v \in Vecs : Callable(v) /\ T.copyable =>
        \A r \in Vecs \ {v} : vec[r].alive /\ vec[r].size > vec[v].capacity =>
            \A fuel \in Fuels(r) :
                LET c == CopyAssign(Start(fuel), v, r)
                IN c.exc = "copy" => Untouched(c, v) /\ Untouched(c, r) /\ c.vec = vec

\* a holds an element, rhs holds two, and the copy of the second one throws.
C10_Witness ==
    \E v \in Vecs, r \in Vecs :
        /\ v # r /\ Callable(v) /\ vec[r].alive /\ T.copyable
        /\ vec[v].size = 1 /\ vec[v].capacity = 1 /\ vec[r].size = 2
        /\ CopyAssign(Start(<<1>>), v, r).exc = "copy"

\* The calls on v that change its elements, as the contexts they end in.
Mutations(v, fuel) ==
    {PushBack(Start(fuel), v, arg) : arg \in PushBackArgs(v)}
        \cup {Insert(Start(fuel), v, index, arg) : index \in 0..vec[v].size, arg \in PushBackArgs(v)}
        \cup {Erase(Start(fuel), v, index) : index \in Indices(v)}
        \cup {PopBack(Start(fuel), v) : n \in {0} \ {vec[v].size}}
        \cup {Resize(Start(fuel), v, n) : n \in 0..room.count}
        \cup {WriteAt(Start(fuel), v, index, x) : index \in Indices(v), x \in Values}

\* When the call that made v a copy of o ends in c: v holds o's elements, o
\* is as it was, and the two do not share a block.
IsCopy(c, v, o) ==
    /\ After(c, v) = Before(o)
    /\ c.vec[o] = vec[o] /\ After(c, o) = Before(o)
    /\ c.vec[v].buffer # c.vec[o].buffer \/ c.vec[v].size = 0

\* C11: after B is made a copy of A by the copy constructor or by copy
\* assignment (with or without reallocation), B's contents equal A's, A is
\* unchanged and B's block is not A's; and a mutating call on one of two
\* vectors (PushBack, Insert, Erase, PopBack, Resize, element write), in any
\* later state, leaves size, capacity and element values of the other.
C11_CopyIndependence ==
    \A v \in Vecs, o \in Vecs : v # o /\ ~halted /\ vec[o].alive =>
        /\ T.copyable => \A fuel \in Fuels(o) :
             LET c == IF vec[v].alive THEN CopyAssign(Start(fuel), v, o)
                      ELSE CopyCtor(Start(fuel), v, o)
             IN ~Thrown(c) => IsCopy(c, v, o)
        /\ vec[v].alive /\ vec[v].buffer # NullBuf => vec[v].buffer # vec[o].buffer
        /\ vec[v].alive => \A fuel \in Fuels(v) : \A c \in Mutations(v, fuel) :
             c.vec[o] = vec[o] /\ After(c, o) = Before(o)

\* b holds one element, a two different ones: b = a reallocates, and a
\* later write to a[0] changes a alone.
C11_Witness ==
    /\ ~halted /\ vec["a"].alive /\ vec["b"].alive /\ T.copyable
    /\ vec["a"].size = 2 /\ vec["b"].capacity = 1
    /\ Before("a")[1] # Before("a")[2]
    /\ After(CopyAssign(Start(<<>>), "b", "a"), "b") = Before("a")
    /\ After(WriteAt(Start(<<>>), "a", 0, Before("a")[2]), "a") # Before("a")

\* C12: move construction of B from A leaves A empty (size 0, capacity 0, no
\* block) and gives B the block, size, capacity and contents A had, and runs
\* no element constructor, copy, move or destructor (so none can throw, and
\* no slot of the heap changes).
C12_MoveCtor ==
    \A v \in Vecs, o \in Vecs : v # o /\ ~halted /\ ~vec[v].alive /\ vec[o].alive =>
        LET c == MoveCtor(Start(<<0>>), v, o)
        IN /\ ~Thrown(c) /\ c.fuel = <<0>>
           /\ c.vec[o] = EmptyVec
           /\ c.vec[v] = vec[o]
           /\ After(c, v) = Before(o)
           /\ c.heap = heap
           /\ c.allocs = 0 /\ c.frees = 0 /\ c.dtors = 0 /\ c.baddtor = 0

\* A vector of two different elements is moved into a new vector.
C12_Witness ==
    \E v \in Vecs, o \in Vecs :
        /\ v # o /\ ~halted /\ ~vec[v].alive /\ vec[o].alive
        /\ vec[o].size = 2 /\ Before(o)[1] # Before(o)[2]
        /\ MoveCtor(Start(<<0>>), v, o).vec[v].buffer = vec[o].buffer

Min(a, b) == IF a <= b THEN a ELSE b

\* C13: a successful Resize(n) sets size to n and keeps the values at
\* [0, min(old size, n)); with n > old size the slots [old size, n) hold
\* value-initialised elements and the capacity is max(old capacity, n); with
\* n <= old size exactly the elements [n, old size) are destroyed and the
\* capacity (and the block) stays.
C13_Resize ==
    \A v \in Vecs : Callable(v) =>
        \A n \in 0..room.count : \A fuel \in FuelsTo(n) :
            LET c == Resize(Start(fuel), v, n)
                old == vec[v].size
                keep == Min(old, n)
            IN ~Thrown(c) =>
                 /\ c.vec[v].size = n
                 /\ SubSeq(After(c, v), 1, keep) = SubSeq(Before(v), 1, keep)
                 /\ IF n > old
                    THEN /\ \A i \in (old + 1)..n : After(c, v)[i] = Default
                         /\ c.vec[v].capacity = Max(vec[v].capacity, n)
                    ELSE /\ c.dtors = old - n /\ c.baddtor = 0
                         /\ \A i \in (n + 1)..old : c.heap[vec[v].buffer][i] = Uninit
                         /\ c.vec[v].capacity = vec[v].capacity
                         /\ c.vec[v].buffer = vec[v].buffer
                         /\ c.allocs = 0 /\ c.frees = 0

\* A full vector of two different elements: Resize(4) reallocates and adds
\* two default elements, Resize(1) destroys the second element.
C13_Witness ==
    \E v \in Vecs :
        /\ Callable(v) /\ Full(v) /\ vec[v].size = 2
        /\ Before(v)[1] # Default /\ Before(v)[2] = Default
        /\ After(Resize(Start(<<>>), v, 4), v) = Before(v) \o <<Default, Default>>
        /\ Resize(Start(<<>>), v, 1).dtors = 1

\* The blocks that are allocated, and the vectors whose data_ holds block b.
Allocated(h) == {b \in Blocks : h[b] # <<>>}
Owners(vv, b) == {v \in Vecs : vv[v].alive /\ vv[v].buffer = b}

\* Every call that can be made on v, as the contexts they end in.
Calls(v, fuel) ==
    Mutations(v, fuel) \cup Adds(v, fuel)
        \cup {Reserve(Start(fuel), v, n) : n \in 0..room.count}
        \cup {VectorDtor(Start(fuel), v) : n \in {0}}
        \cup {SwapOp(Start(fuel), v, o) : o \in {r \in Vecs : vec[r].alive}}
        \cup {MoveAssign(Start(fuel), v, o) : o \in {r \in Vecs : vec[r].alive}}
        \cup {CopyAssign(Start(fuel), v, o) : o \in {r \in Vecs : vec[r].alive /\ T.copyable}}

\* C14: over any sequence of operations, failed ones included, every
\* allocated block is owned by exactly one vector (or by the operation that
\* is running), and is deallocated exactly once, by the time its owner is
\* destroyed: between calls each allocated block is the block of exactly one
\* live vector and has its capacity, a destroyed vector holds none, and each
\* call frees only allocated blocks, each once (the blocks that exist when
\* it ends are those before it, plus its allocations, minus its frees).
C14_BlockOwnership ==
    /\ \A b \in Allocated(heap) : Cardinality(Owners(vec, b)) = 1
    /\ \A v \in Vecs :
         /\ vec[v].alive /\ vec[v].buffer # NullBuf =>
              vec[v].buffer \in Allocated(heap) /\ Len(heap[vec[v].buffer]) = vec[v].capacity
         /\ vec[v].alive /\ vec[v].buffer = NullBuf => vec[v].capacity = 0
         /\ ~vec[v].alive => vec[v].buffer = NullBuf
    /\ \A v \in Vecs : Callable(v) =>
         \A fuel \in Fuels(v) : \A c \in Calls(v, fuel) :
             /\ Cardinality(Allocated(c.heap)) = Cardinality(Allocated(heap)) + c.allocs - c.frees
             /\ \A b \in Allocated(c.heap) : Cardinality(Owners(c.vec, b)) = 1
    /\ \A v \in Vecs : ~halted /\ ~vec[v].alive =>
         \A o \in Vecs \ {v} : vec[o].alive /\ T.copyable =>
             \A fuel \in Fuels(o) :
                 LET c == CopyCtor(Start(fuel), v, o)
                 IN Cardinality(Allocated(c.heap)) = Cardinality(Allocated(heap)) + c.allocs - c.frees

\* Two vectors own a block each; a Reserve on one fails partway and the
\* destructor of the other frees its block.
C14_Witness ==
    /\ ~halted /\ vec["a"].alive /\ vec["b"].alive
    /\ vec["a"].buffer # NullBuf /\ vec["b"].buffer # NullBuf
    /\ vec["a"].size = 1 /\ vec["a"].capacity = 1
    /\ LET c == Reserve(Start(<<0>>), "a", 2)
       IN Thrown(c) /\ c.allocs = 1 /\ c.frees = 1
    /\ VectorDtor(Start(<<>>), "b").frees = 1

\* C15: in the reallocating Insert / Emplace, when the construction of the
\* new element in the new block throws after the prefix [0, index) was
\* migrated into that block, the migrated prefix is destroyed before the
\* exception leaves and the block is freed: index destructors run and the
\* freed block holds no element that is still alive.
C15_PrefixDestroyedOnConstructThrow ==
    \A v \in Vecs : Callable(v) /\ Full(v) =>
        \A index \in 0..vec[v].size, arg \in PushBackArgs(v) \cup EmplaceArgs(v), fuel \in Fuels(v) :
            LET c == Emplace(Start(fuel), v, index, arg)
            IN c.exc = "construct" =>
                 /\ c.allocs = 1 /\ c.frees = 1
                 /\ c.dtors = index
                 /\ c.leaked = 0

\* C16: no call, on any path, runs an element destructor on a slot that
\* holds no live element (none is destroyed twice, none that was never
\* constructed); when the prefix copy of the reallocating Emplace throws
\* after j < index elements were copied, exactly those j are destroyed.
C16_NoDestructorOnDeadSlot ==
    \A v \in Vecs : Callable(v) =>
        \A fuel \in Fuels(v) : \A c \in Calls(v, fuel) :
            /\ c.baddtor = 0
            /\ c.exc = "prefix" /\ fuel # <<>> => c.dtors = fuel[1]

\* C17: when a copy of an existing element throws during a reallocating
\* PushBack, EmplaceBack or Emplace (its suffix migration), every object
\* already constructed in the new block (the new element and, for Emplace,
\* the migrated prefix) is destroyed before the exception leaves: the block
\* is not freed while one of its slots holds a live element.
C17_NewBlockEmptiedOnCopyThrow ==
    \A v \in Vecs : Callable(v) /\ Full(v) /\ ~MigrateByMove =>
        \A fuel \in Fuels(v) : \A c \in Adds(v, fuel) :
            c.exc \in {"migrate", "suffix"} =>
                /\ c.frees = 1
                /\ c.leaked = 0

\* C18: between public operations, also after one that failed (such as a
\* middle Emplace without reallocation whose shifting move assignment or
\* final assignment of the temporary threw), every slot in [0, size) of the
\* block holds a live element and every slot in [size, capacity) holds none.
C18_SlotLiveness ==
    \A v \in Vecs : vec[v].alive /\ vec[v].buffer # NullBuf =>
        /\ \A i \in 1..vec[v].size : heap[vec[v].buffer][i] # Uninit
        /\ \A i \in (vec[v].size + 1)..vec[v].capacity : heap[vec[v].buffer][i] = Uninit

\* The appends the overloads of PushBack and EmplaceBack allow on v with an
\* argument whose constructor can throw, as the contexts they end in.
Appends(v, fuel) ==
    {PushBack(Start(fuel), v, arg) : arg \in {a \in PushBackArgs(v) : ArgFallible(a)}}
        \cup {EmplaceBack(Start(fuel), v, arg) : arg \in {a \in EmplaceArgs(v) : ArgFallible(a)}}

\* C19 as stated: a reallocating PushBack / EmplaceBack (size = capacity)
\* migrates the existing elements into the new block first and constructs
\* the new element after them, as Reserve does, then destroys the old
\* elements and swaps.  When the first element operation of the call that
\* can throw does throw, it is therefore the migration of element 0.
C19_MigrateThenConstruct ==
    \A v \in Vecs : Callable(v) /\ Full(v) /\ vec[v].size >= 1 /\ MoveCtorThrows =>
        \A c \in Appends(v, <<0>>) : c.exc # "alloc" => c.exc = "migrate"

\* C19 amended: a reallocating PushBack / EmplaceBack constructs the new
\* element in the new block first, then migrates the existing elements,
\* then destroys the old elements and swaps the storage: the first element
\* operation that can throw is the construction, the second the migration
\* of element 0, and a call that returns has destroyed the size old
\* elements, freed the old block and holds the new one.
C19_ConstructThenMigrate ==
    \A v \in Vecs : Callable(v) /\ Full(v) /\ vec[v].size >= 1 /\ MoveCtorThrows =>
        /\ \A c \in Appends(v, <<0>>) : c.exc # "alloc" => c.exc = "construct"
        /\ \A c \in Appends(v, <<1>>) : c.exc # "alloc" => c.exc = "migrate"
        /\ \A c \in Appends(v, <<>>) : c.exc # "alloc" =>
             /\ c.dtors = vec[v].size /\ c.frees = 1 /\ c.allocs = 1
             /\ c.vec[v].buffer # vec[v].buffer
             /\ c.heap[vec[v].buffer] = <<>>

\* A full vector of two elements whose copies can throw: the append fails
\* in the construction with no operation left, in the migration with one.
C19_Witness ==
    \E v \in Vecs :
        /\ Callable(v) /\ Full(v) /\ vec[v].size = 2 /\ MoveCtorThrows /\ T.copyable
        /\ PushBack(Start(<<0>>), v, Val(MaxVal)).exc = "construct"
        /\ EmplaceBack(Start(<<1>>), v, Val(MaxVal)).exc = "migrate"
        /\ After(PushBack(Start(<<>>), v, Val(MaxVal)), v) = Before(v) \o <<MaxVal>>

\* C20: PushBack(v[i]) / EmplaceBack(v[i]) with the argument a reference to
\* element i of the vector itself, for every i, with and without
\* reallocation, for move-migrated and copy-migrated T: the contents after
\* the call are the contents before it followed by the value v[i] had.
C20_SelfAppend ==
    \A v \in Vecs : Callable(v) /\ T.copyable =>
        \A i \in Indices(v) :
            LET c == PushBack(Start(<<>>), v, Ref(i))
                d == EmplaceBack(Start(<<>>), v, Ref(i))
            IN /\ ~Thrown(c) => After(c, v) = Before(v) \o <<Before(v)[i + 1]>>
               /\ ~Thrown(d) =>
                    /\ After(d, v) = Before(v) \o <<Before(v)[i + 1]>>
                    /\ d.heap[EmplaceBackResult(d, v).buf][EmplaceBackResult(d, v).idx + 1]
                         = Before(v)[i + 1]

\* A full vector <<0, 1>> of a move-migrated T appends its own second
\* element and reallocates.
C20_Witness ==
    \E v \in Vecs :
        /\ Callable(v) /\ T.copyable /\ T.nothrow_move
        /\ Full(v) /\ vec[v].size = 2 /\ Before(v) = <<Default, MaxVal>>
        /\ After(PushBack(Start(<<>>), v, Ref(1)), v) = <<Default, MaxVal, MaxVal>>
        /\ After(EmplaceBack(Start(<<>>), v, Ref(1)), v) = <<Default, MaxVal, MaxVal>>
====
